---- MODULE Spec2Model ----
(***************************************************************************)
(* Verification model of hodl_agent: the swap-intent tool                  *)
(* (agents/tools/swap_tools.py) with its token and chain normalizers.      *)
(*                                                                         *)
(* Python strings are modelled as sequences of one-character strings, so   *)
(* lower(), upper(), strip(), capitalize() and the regular expression act  *)
(* character by character as in the interpreter.  A Python value is a      *)
(* record [t, v]: t is its type ("str", "none", "int") and v its text.     *)
(* A dict is a sequence of <<key, value>> pairs in insertion order.        *)
(***************************************************************************)
EXTENDS Integers, Sequences, FiniteSets, TLC

VARIABLES op, arg, now, pc, res, use_mock, messages, llm_in, served, user_profiles

vars == <<op, arg, now, pc, res, use_mock, messages, llm_in, served, user_profiles>>

(***************************************************************************)
(* Bounds of the explored inputs                                           *)
(***************************************************************************)
MaxLen == 4

MaxClock == 1

\* words per message
MaxWords == 2

\* grid points per percent, and the largest changes explored, in percent
Unit == 1

MaxChange24 == 7

MaxChange7d == 12

\* requests served by one process
MaxRequests == 3

(***************************************************************************)
(* Characters and the str methods the tool uses                            *)
(***************************************************************************)
CasePairs ==
    { <<"a","A">>, <<"b","B">>, <<"c","C">>, <<"d","D">>, <<"e","E">>,
      <<"f","F">>, <<"g","G">>, <<"h","H">>, <<"i","I">>, <<"j","J">>,
      <<"k","K">>, <<"l","L">>, <<"m","M">>, <<"n","N">>, <<"o","O">>,
      <<"p","P">>, <<"q","Q">>, <<"r","R">>, <<"s","S">>, <<"t","T">>,
      <<"u","U">>, <<"v","V">>, <<"w","W">>, <<"x","X">>, <<"y","Y">>,
      <<"z","Z">> }

Whitespace == {" ", "\t", "\n", "\r"}

Digits == {"0","1","2","3","4","5","6","7","8","9"}

char_lower(c) ==
    IF \E p \in CasePairs : p[2] = c
    THEN (CHOOSE p \in CasePairs : p[2] = c)[1]
    ELSE c

char_upper(c) ==
    IF \E p \in CasePairs : p[1] = c
    THEN (CHOOSE p \in CasePairs : p[1] = c)[2]
    ELSE c

lower(s) == [i \in 1..Len(s) |-> char_lower(s[i])]

upper(s) == [i \in 1..Len(s) |-> char_upper(s[i])]

RECURSIVE lstrip(_)
lstrip(s) ==
    IF s /= <<>> /\ Head(s) \in Whitespace THEN lstrip(Tail(s)) ELSE s

RECURSIVE rstrip(_)
rstrip(s) ==
    IF s /= <<>> /\ s[Len(s)] \in Whitespace
    THEN rstrip(SubSeq(s, 1, Len(s) - 1))
    ELSE s

\* variant: trailing whitespace is kept
strip_leading_only(s) == lstrip(s)

strip(s) == rstrip(lstrip(s))

\* variant: str.title(), a capital after every non-letter
capitalize_title(s) ==
    [i \in 1..Len(s) |->
        IF i = 1 \/ (i > 1 /\ ~\E p \in CasePairs : s[i - 1] \in {p[1], p[2]})
        THEN char_upper(s[i])
        ELSE char_lower(s[i])]

capitalize(s) ==
    [i \in 1..Len(s) |-> IF i = 1 THEN char_upper(s[i]) ELSE char_lower(s[i])]

(***************************************************************************)
(* SwapIntentTool.__init__: the token alias table                          *)
(***************************************************************************)
common_tokens ==
    (<<"b","t","c">> :> <<"B","T","C">>) @@
    (<<"e","t","h">> :> <<"E","T","H">>) @@
    (<<"u","s","d","t">> :> <<"U","S","D","T">>) @@
    (<<"u","s","d","c">> :> <<"U","S","D","C">>) @@
    (<<"b","n","b">> :> <<"B","N","B">>) @@
    (<<"s","o","l">> :> <<"S","O","L">>) @@
    (<<"a","d","a">> :> <<"A","D","A">>) @@
    (<<"d","o","t">> :> <<"D","O","T">>) @@
    (<<"l","i","n","k">> :> <<"L","I","N","K">>) @@
    (<<"u","n","i">> :> <<"U","N","I">>) @@
    (<<"a","a","v","e">> :> <<"A","A","V","E">>) @@
    (<<"m","k","r">> :> <<"M","K","R">>) @@
    (<<"d","o","g","e">> :> <<"D","O","G","E">>) @@
    (<<"s","h","i","b">> :> <<"S","H","I","B">>) @@
    (<<"a","v","a","x">> :> <<"A","V","A","X">>) @@
    (<<"x","r","p">> :> <<"X","R","P">>) @@
    (<<"u">> :> <<"U","S","D","T">>) @@
    (<<"1","0","0","u">> :> <<"1","0","0"," ","U","S","D","T">>)

USDT == <<"U","S","D","T">>

(***************************************************************************)
(* re.search(r'(\\d+(?:\\.\\d+)?)\s*u', token_lower): in the raw string    *)
(* every "\\" is an escaped backslash, so the pattern reads                *)
(*   backslash, one or more "d",                                           *)
(*   optionally (backslash, any character but newline, backslash, one or   *)
(*   more "d"), any whitespace, "u"                                        *)
(* and search accepts a match starting anywhere in the string.             *)
(***************************************************************************)
AllIn(s, i, j, set) == \A k \in i..j : s[k] \in set

\* backslash at i followed by one or more "d", the run ending at j
BackslashDs(s, i, j) ==
    /\ i >= 1 /\ j > i /\ j <= Len(s)
    /\ s[i] = "\\"
    /\ AllIn(s, i + 1, j, {"d"})

\* The expression with single backslashes, (\d+(?:\.\d+)?)\s*u: one or more
\* digits, optional decimal part, any whitespace, "u", anywhere in s.
amount_match_unescaped(s) ==
    \E i \in 1..Len(s), j \in 1..Len(s) :
        /\ i <= j
        /\ AllIn(s, i, j, Digits)
        /\ \E m \in j..Len(s) :
              /\ \/ m = j
                 \/ /\ m >= j + 2
                    /\ s[j + 1] = "."
                    /\ AllIn(s, j + 2, m, Digits)
              /\ \E n \in m..(Len(s) - 1) :
                    /\ AllIn(s, m + 1, n, Whitespace)
                    /\ s[n + 1] = "u"

amount_match(s) ==
    \E i \in 1..Len(s), j \in 1..Len(s) :
        /\ BackslashDs(s, i, j)
        /\ \E m \in j..Len(s) :
              /\ \/ m = j
                 \/ /\ j + 2 <= Len(s)
                    /\ s[j + 1] = "\\"
                    /\ s[j + 2] /= "\n"
                    /\ BackslashDs(s, j + 3, m)
              /\ \E n \in m..(Len(s) - 1) :
                    /\ AllIn(s, m + 1, n, Whitespace)
                    /\ s[n + 1] = "u"

(***************************************************************************)
(* SwapIntentTool._normalize_token                                         *)
(***************************************************************************)
_normalize_token(token) ==
    LET token_lower == strip(lower(token)) IN
    IF token_lower \in DOMAIN common_tokens
    THEN common_tokens[token_lower]
    ELSE IF amount_match(token_lower)
    THEN USDT
    ELSE upper(token_lower)

(***************************************************************************)
(* SwapIntentTool._normalize_chain                                         *)
(***************************************************************************)
chain_mapping ==
    (<<"e","t","h">> :> <<"E","t","h","e","r","e","u","m">>) @@
    (<<"b","t","c">> :> <<"B","i","t","c","o","i","n">>) @@
    (<<"b","s","c">> :> <<"B","S","C">>) @@
    (<<"p","o","l","y","g","o","n">> :> <<"P","o","l","y","g","o","n">>) @@
    (<<"m","a","t","i","c">> :> <<"P","o","l","y","g","o","n">>) @@
    (<<"a","v","a","x">> :> <<"A","v","a","l","a","n","c","h","e">>) @@
    (<<"s","o","l">> :> <<"S","o","l","a","n","a">>)

DefaultChain == <<"d","e","f","a","u","l","t">>

\* variant: no default for an unspecified chain
_normalize_chain_no_default(chain) ==
    LET chain_lower == strip(lower(chain)) IN
    IF chain_lower \in DOMAIN chain_mapping
    THEN chain_mapping[chain_lower]
    ELSE capitalize(chain_lower)

_normalize_chain(chain) ==
    LET chain_lower == strip(lower(chain)) IN
    IF chain_lower = <<>>
    THEN DefaultChain
    ELSE IF chain_lower \in DOMAIN chain_mapping
    THEN chain_mapping[chain_lower]
    ELSE capitalize(chain_lower)

(***************************************************************************)
(* Python values and dicts                                                 *)
(***************************************************************************)
PyStr(s) == [t |-> "str", v |-> s]

PyNone == [t |-> "none", v |-> <<>>]

PyInt(digits) == [t |-> "int", v |-> digits]

PyBool(b) == [t |-> "bool", v |-> IF b THEN <<"T","r","u","e">> ELSE <<"F","a","l","s","e">>]

\* bool(value): '', None and 0 are falsy
truthy(value) ==
    CASE value.t = "str" -> value.v /= <<>>
      [] value.t = "none" -> FALSE
      [] value.t = "int" -> value.v /= <<"0">>
      [] value.t = "bool" -> value.v = <<"T","r","u","e">>

\* variant: the amount coerced to a float before it is formatted
str_via_float(value) ==
    IF value.t = "none" THEN <<"N","o","n","e">>
    ELSE IF \E i \in 1..Len(value.v) : value.v[i] = "."
    THEN value.v
    ELSE value.v \o <<".","0">>

\* str(value)
str(value) ==
    CASE value.t = "str" -> value.v
      [] value.t = "none" -> <<"N","o","n","e">>
      [] value.t = "int" -> value.v
      [] value.t = "bool" -> value.v

dict_keys(d) == [i \in 1..Len(d) |-> d[i][1]]

dict_has(d, key) == \E i \in 1..Len(d) : d[i][1] = key

\* d.get(key, default)
dict_get(d, key, default) ==
    IF dict_has(d, key)
    THEN d[CHOOSE i \in 1..Len(d) : d[i][1] = key][2]
    ELSE default

(***************************************************************************)
(* SwapIntentTool.call and its helpers.  The returned JSON text is         *)
(* modelled by the object it serializes; an exception leaving call is the  *)
(* outcome [kind |-> "raise"].                                             *)
(***************************************************************************)
Required == <<"tkBuy", "tkSell", "count">>

Raise(exc) == [kind |-> "raise", exc |-> exc]

AltNames == <<"tokenBuy", "tokenSell", "amount">>

\* variant: either naming satisfies the check
_validate_params_either(d) ==
    \A i \in 1..Len(Required) :
        \/ dict_has(d, Required[i]) /\ truthy(dict_get(d, Required[i], PyNone))
        \/ dict_has(d, AltNames[i]) /\ truthy(dict_get(d, AltNames[i], PyNone))

\* _validate_params on a dict
_validate_params(d) ==
    \A i \in 1..Len(Required) :
        /\ dict_has(d, Required[i])
        /\ truthy(dict_get(d, Required[i], PyNone))

_get_current_timestamp(clock) == clock

_normalize_swap_intent(d) ==
    LET rawBuy == dict_get(d, "tkBuy", PyStr(<<>>))
        rawSell == dict_get(d, "tkSell", PyStr(<<>>))
        rawChain == dict_get(d, "chain", PyStr(<<>>))
        count == str(dict_get(d, "count", PyStr(<<>>)))
    IN  IF rawBuy.t /= "str" \/ rawSell.t /= "str" \/ rawChain.t /= "str"
        THEN Raise("AttributeError")
        ELSE LET tk_buy == _normalize_token(rawBuy.v)
                 tk_sell == _normalize_token(rawSell.v)
                 chain == _normalize_chain(rawChain.v)
             IN  [kind |-> "intent",
                  chain |-> chain,
                  tkBuy |-> tk_buy,
                  tkSell |-> tk_sell,
                  count |-> count,
                  tokenIn |-> tk_sell,
                  tokenOut |-> tk_buy,
                  amount |-> count,
                  amountIn |-> count]

\* params is [isStr, items]: a dict with the given items, or (isStr) the
\* JSON text of that dict handed over unparsed.  On a str, "key in params"
\* is a substring test; params[key] raises TypeError and params.keys()
\* raises AttributeError.
call(params, clock) ==
    IF params.isStr
    THEN IF dict_has(params.items, Required[1])
         THEN Raise("TypeError")
         ELSE Raise("AttributeError")
    ELSE IF ~_validate_params(params.items)
    THEN [kind |-> "error",
          error |-> "Missing required parameters",
          required |-> Required,
          provided |-> dict_keys(params.items)]
    ELSE LET swap_intent == _normalize_swap_intent(params.items) IN
         IF swap_intent.kind = "raise"
         THEN swap_intent
         ELSE [kind |-> "intent",
               chain |-> swap_intent.chain,
               tkBuy |-> swap_intent.tkBuy,
               tkSell |-> swap_intent.tkSell,
               count |-> swap_intent.count,
               tokenIn |-> swap_intent.tokenIn,
               tokenOut |-> swap_intent.tokenOut,
               amount |-> swap_intent.amount,
               amountIn |-> swap_intent.amountIn,
               timestamp |-> _get_current_timestamp(clock),
               valid |-> TRUE]

(***************************************************************************)
(* Keyword routing (api.py, chat_endpoint) and emotion detection           *)
(* (mental_support_agent.py).  A CJK character is one character of the     *)
(* string, written by its code point ("U5B9A" is U+5B9A); str.lower()      *)
(* leaves it unchanged.                                                    *)
(***************************************************************************)
\* keyword in text
contains(s, kw) ==
    \E i \in 0..(Len(s) - Len(kw)) : SubSeq(s, i + 1, i + Len(kw)) = kw

\* any(keyword in text for keyword in keywords)
any_keyword(s, keywords) == \E kw \in keywords : contains(s, kw)

\* U+5B9A U+6295 (dingtou), "dca", "invest", "auto buy"
dca_keywords ==
    { <<"U5B9A","U6295">>,
      <<"d","c","a">>,
      <<"i","n","v","e","s","t">>,
      <<"a","u","t","o"," ","b","u","y">> }

\* U+6362 (huan), U+4EA4 U+6362 (jiaohuan), "swap", "buy", "sell",
\* U+4E70 (mai, buy), U+5356 (mai, sell)
swap_keywords ==
    { <<"U6362">>,
      <<"U4EA4","U6362">>,
      <<"s","w","a","p">>,
      <<"b","u","y">>,
      <<"s","e","l","l">>,
      <<"U4E70">>,
      <<"U5356">> }

\* xinqing, jiaolv, danxin, kongju, zhichi, guli
mental_support_keywords ==
    { <<"U5FC3","U60C5">>,
      <<"U7126","U8651">>,
      <<"U62C5","U5FC3">>,
      <<"U6050","U60E7">>,
      <<"U652F","U6301">>,
      <<"U9F13","U52B1">> }

\* jiage, shichang, hangqing, "price", "market", "trend"
market_data_keywords ==
    { <<"U4EF7","U683C">>,
      <<"U5E02","U573A">>,
      <<"U884C","U60C5">>,
      <<"p","r","i","c","e">>,
      <<"m","a","r","k","e","t">>,
      <<"t","r","e","n","d">> }

\* variant: the swap keywords tested before the DCA keywords
route_swap_first(message_lower) ==
    IF any_keyword(message_lower, swap_keywords) THEN "swap"
    ELSE IF any_keyword(message_lower, dca_keywords) THEN "dca"
    ELSE IF any_keyword(message_lower, mental_support_keywords) THEN "mental_support"
    ELSE IF any_keyword(message_lower, market_data_keywords) THEN "market_data"
    ELSE "general"

\* the if/elif chain of chat_endpoint: the branch taken for a lower-cased text
route(message_lower) ==
    IF any_keyword(message_lower, dca_keywords) THEN "dca"
    ELSE IF any_keyword(message_lower, swap_keywords) THEN "swap"
    ELSE IF any_keyword(message_lower, mental_support_keywords) THEN "mental_support"
    ELSE IF any_keyword(message_lower, market_data_keywords) THEN "market_data"
    ELSE "general"

AsciiLetters == { p[1] : p \in CasePairs } \cup { p[2] : p \in CasePairs }

\* variant: the first whole word that has 2 to 5 letters
symbol_match_whole_word(s) ==
    LET Word(i, n) ==
            /\ i + n - 1 <= Len(s)
            /\ \A k \in i..(i + n - 1) : s[k] \in AsciiLetters
            /\ i = 1 \/ s[i - 1] \notin AsciiLetters
            /\ i + n > Len(s) \/ s[i + n] \notin AsciiLetters
        starts == { i \in 1..Len(s) : \E n \in 2..5 : Word(i, n) }
    IN  IF starts = {} THEN <<>>
        ELSE LET i == CHOOSE x \in starts : \A y \in starts : x <= y
                 n == CHOOSE k \in 2..5 : Word(i, k)
             IN  SubSeq(s, i, i + n - 1)

\* re.search(r'[a-zA-Z]{2,5}', s): the leftmost run of letters, taken greedily
\* up to five; <<>> stands for no match (None).
symbol_match(s) ==
    LET Run(i, n) == i + n - 1 <= Len(s) /\ \A k \in i..(i + n - 1) : s[k] \in AsciiLetters
        starts == { i \in 1..Len(s) : Run(i, 2) }
    IN  IF starts = {} THEN <<>>
        ELSE LET i == CHOOSE x \in starts : \A y \in starts : x <= y
                 n == CHOOSE k \in 2..5 : Run(i, k) /\ \A m \in 2..5 : Run(i, m) => m <= k
             IN  SubSeq(s, i, i + n - 1)

\* pa, danxin, kongju, konghuang, jiaolv
fearful_keywords ==
    { <<"U6015">>,
      <<"U62C5","U5FC3">>,
      <<"U6050","U60E7">>,
      <<"U6050","U614C">>,
      <<"U7126","U8651">> }

\* zhuan, zhang, jidong, tanlan, qidai
excited_keywords ==
    { <<"U8D5A">>,
      <<"U6DA8">>,
      <<"U6FC0","U52A8">>,
      <<"U8D2A","U5A6A">>,
      <<"U671F","U5F85">> }

\* kui, die, shiwang, jusang, shangxin
frustrated_keywords ==
    { <<"U4E8F">>,
      <<"U8DCC">>,
      <<"U5931","U671B">>,
      <<"U6CAE","U4E27">>,
      <<"U4F24","U5FC3">> }

\* variant: the frustrated keywords tested before the fearful ones
analyze_emotion_frustrated_first(user_message) ==
    LET user_lower == lower(user_message) IN
    IF any_keyword(user_lower, frustrated_keywords) THEN "frustrated"
    ELSE IF any_keyword(user_lower, fearful_keywords) THEN "fearful"
    ELSE IF any_keyword(user_lower, excited_keywords) THEN "excited"
    ELSE "neutral"

\* MentalSupportAgent.analyze_emotion
analyze_emotion(user_message) ==
    LET user_lower == lower(user_message) IN
    IF any_keyword(user_lower, fearful_keywords) THEN "fearful"
    ELSE IF any_keyword(user_lower, excited_keywords) THEN "excited"
    ELSE IF any_keyword(user_lower, frustrated_keywords) THEN "frustrated"
    ELSE "neutral"

(***************************************************************************)
(* MarketDataTool (agents/tools/market_tools.py).  Percentage changes are  *)
(* integers counting 1/Unit of a percent, so a threshold of 5 percent is   *)
(* 5 * Unit; prices are integers counting tenths of a currency unit.       *)
(***************************************************************************)
\* variant: the sign is kept
abs_signed(x) == x

abs(x) == IF x < 0 THEN -x ELSE x

FallbackAdvice == "market unclear, stay cautious"

advice_map ==
    [ bull_market |->
        [ high |-> "bull/high: do not chase, take profit in batches",
          medium |-> "bull/medium: follow moderately, control risk",
          low |-> "bull/low: may precede a larger rise, watch volume" ],
      uptrend |->
        [ high |-> "up/high: buy dips with a stop loss",
          medium |-> "up/medium: steady uptrend, suits DCA",
          low |-> "up/low: breaking resistance may speed up the rise" ],
      bear_market |->
        [ high |-> "bear/high: wait or probe with a small position, strict stop loss",
          medium |-> "bear/medium: wait for the bottom, watch fundamentals",
          low |-> "bear/low: a directional break may be near" ],
      downtrend |->
        [ high |-> "down/high: do not bottom-fish, wait for a reversal",
          medium |-> "down/medium: stay out or hedge",
          low |-> "down/low: may be a continuation, be careful" ],
      sideways |->
        [ high |-> "side/high: range trading, watch the break direction",
          medium |-> "side/medium: wait for direction, small positions",
          low |-> "side/low: direction is about to be chosen, watch volume" ] ]

\* variant: the two keys looked up in the wrong order
_get_market_advice_swapped_keys(trend, volatility) ==
    IF volatility \in DOMAIN advice_map /\ trend \in DOMAIN advice_map[volatility]
    THEN advice_map[volatility][trend]
    ELSE FallbackAdvice

\* advice_map.get(trend, {}).get(volatility, fallback)
_get_market_advice(trend, volatility) ==
    IF trend \in DOMAIN advice_map /\ volatility \in DOMAIN advice_map[trend]
    THEN advice_map[trend][volatility]
    ELSE FallbackAdvice

\* variant: the uptrend branch tested before the bull-market branch
trend_of_uptrend_first(change_24h, change_7d) ==
    IF change_24h > 0 /\ change_7d > 0 THEN "uptrend"
    ELSE IF change_24h > 5 * Unit /\ change_7d > 10 * Unit THEN "bull_market"
    ELSE IF change_24h < -5 * Unit /\ change_7d < -10 * Unit THEN "bear_market"
    ELSE IF change_24h < 0 /\ change_7d < 0 THEN "downtrend"
    ELSE "sideways"

\* the trend branches of _analyze_market_state
trend_of(change_24h, change_7d) ==
    IF change_24h > 5 * Unit /\ change_7d > 10 * Unit THEN "bull_market"
    ELSE IF change_24h > 0 /\ change_7d > 0 THEN "uptrend"
    ELSE IF change_24h < -5 * Unit /\ change_7d < -10 * Unit THEN "bear_market"
    ELSE IF change_24h < 0 /\ change_7d < 0 THEN "downtrend"
    ELSE "sideways"

\* variant: thresholds met count as exceeded
volatility_of_inclusive(change_24h) ==
    IF abs(change_24h) >= 3 * Unit THEN "high"
    ELSE IF abs(change_24h) >= 1 * Unit THEN "medium"
    ELSE "low"

\* the volatility expression of _analyze_market_state
volatility_of(change_24h) ==
    IF abs(change_24h) > 3 * Unit THEN "high"
    ELSE IF abs(change_24h) > 1 * Unit THEN "medium"
    ELSE "low"

trend_description_of(trend) ==
    CASE trend = "bull_market" -> "strong bull market"
      [] trend = "uptrend" -> "uptrend"
      [] trend = "bear_market" -> "bear market"
      [] trend = "downtrend" -> "downtrend"
      [] trend = "sideways" -> "sideways consolidation"

_analyze_market_state(change_24h, change_7d) ==
    LET trend == trend_of(change_24h, change_7d)
        volatility == volatility_of(change_24h)
    IN  [trend |-> trend,
         trend_description |-> trend_description_of(trend),
         volatility |-> volatility,
         advice |-> _get_market_advice(trend, volatility)]

NoMarketState ==
    [trend |-> "", trend_description |-> "", volatility |-> "", advice |-> ""]

mock_prices ==
    (<<"b","t","c">> :> 420000) @@
    (<<"e","t","h">> :> 28000) @@
    (<<"u","s","d","t">> :> 10) @@
    (<<"u","s","d","c">> :> 10) @@
    (<<"b","n","b">> :> 3500) @@
    (<<"s","o","l">> :> 1200) @@
    (<<"a","d","a">> :> 5) @@
    (<<"d","o","t">> :> 80) @@
    (<<"l","i","n","k">> :> 150) @@
    (<<"u","n","i">> :> 75)

\* the draws of random.uniform(-5.0, 5.0) and random.uniform(-10.0, 10.0)
MockChange24 == (-5 * Unit)..(5 * Unit)

MockChange7d == (-10 * Unit)..(10 * Unit)

\* variant: the draws are doubled
_get_mock_data_doubled(symbol, vs_currency, env, clock) ==
    [status |-> "success",
     symbol |-> upper(symbol),
     price |-> IF symbol \in DOMAIN mock_prices THEN mock_prices[symbol] ELSE 1000,
     price_change_percentage_24h |-> 2 * env.c24,
     price_change_percentage_7d |-> 2 * env.c7,
     vs_currency |-> upper(vs_currency),
     timestamp |-> clock,
     source |-> "Mock Data"]

\* env.c24 and env.c7 are the two random draws
_get_mock_data(symbol, vs_currency, env, clock) ==
    [status |-> "success",
     symbol |-> upper(symbol),
     price |-> IF symbol \in DOMAIN mock_prices THEN mock_prices[symbol] ELSE 1000,
     price_change_percentage_24h |-> env.c24,
     price_change_percentage_7d |-> env.c7,
     vs_currency |-> upper(vs_currency),
     timestamp |-> clock,
     source |-> "Mock Data"]

\* variant: a failed request is reported instead of replaced by mock data
_fetch_market_data_no_fallback(symbol, vs_currency, env, clock) ==
    IF env.fetch = "ok"
    THEN [status |-> "success",
          symbol |-> upper(symbol),
          price |-> env.price,
          price_change_percentage_24h |-> env.c24,
          price_change_percentage_7d |-> env.c7,
          vs_currency |-> upper(vs_currency),
          timestamp |-> clock,
          source |-> "CoinGecko API"]
    ELSE [status |-> "error",
          symbol |-> upper(symbol),
          price |-> 0,
          price_change_percentage_24h |-> 0,
          price_change_percentage_7d |-> 0,
          vs_currency |-> upper(vs_currency),
          timestamp |-> clock,
          source |-> env.fetch]

\* env.fetch is the outcome of the HTTP request: "ok" (the symbol is in the
\* reply, env.price, env.c24, env.c7 are its values), "network_error"
\* (requests.get raises), "http_error" (raise_for_status raises) or
\* "not_found" (the symbol is missing from the reply, ValueError).  Every
\* exception is caught and replaced by mock data.
_fetch_market_data(symbol, vs_currency, env, clock) ==
    IF env.fetch = "ok"
    THEN [status |-> "success",
          symbol |-> upper(symbol),
          price |-> env.price,
          price_change_percentage_24h |-> env.c24,
          price_change_percentage_7d |-> env.c7,
          vs_currency |-> upper(vs_currency),
          timestamp |-> clock,
          source |-> "CoinGecko API"]
    ELSE _get_mock_data(symbol, vs_currency, env, clock)

\* MarketDataTool.__init__: self.use_mock
use_mock_of(api_key_set, url_has_coinmarketcap) ==
    ~api_key_set /\ url_has_coinmarketcap

MarketError(text) ==
    [kind |-> "error", status |-> "error", error |-> text]

\* MarketDataTool.call on the dict params
market_call(params, mock, env, clock) ==
    LET rawSymbol == dict_get(params, "symbol", PyStr(<<>>))
        rawCurrency == dict_get(params, "vs_currency", PyStr(<<"u","s","d">>))
        include_market_state == dict_get(params, "include_market_state", PyBool(TRUE))
    IN  IF rawSymbol.t /= "str" \/ rawCurrency.t /= "str"
        THEN Raise("AttributeError")
        ELSE LET symbol == lower(rawSymbol.v)
                 vs_currency == lower(rawCurrency.v)
             IN  IF symbol = <<>>
                 THEN MarketError("Symbol parameter is required")
                 ELSE LET data == IF mock
                                  THEN _get_mock_data(symbol, vs_currency, env, clock)
                                  ELSE _fetch_market_data(symbol, vs_currency, env, clock)
                          included == truthy(include_market_state)
                      IN  [kind |-> "data",
                           data |-> data,
                           status |-> data.status,
                           has_market_state |-> included,
                           market_state |->
                               IF included
                               THEN _analyze_market_state(
                                        data.price_change_percentage_24h,
                                        data.price_change_percentage_7d)
                               ELSE NoMarketState]

(***************************************************************************)
(* ContractTool (agents/tools/contract_tools.py).  The chain is the        *)
(* environment: env.read is the outcome of an eth_call ("ok" or "raise"),  *)
(* env.tx that of sending a transaction: "ok", "key_invalid"               *)
(* (Account.from_key raises), "build_raise" (nonce, gas price or           *)
(* build_transaction raises) or "send_raise" (send_raw_transaction raises  *)
(* after the transaction was signed).  A result records whether            *)
(* sign_transaction was reached (signed) and whether the transaction was   *)
(* broadcast (sent).                                                       *)
(***************************************************************************)
erc20_functions ==
    { <<"n","a","m","e">>, <<"s","y","m","b","o","l">>, <<"d","e","c","i","m","a","l","s">>,
      <<"t","o","t","a","l","S","u","p","p","l","y">>, <<"b","a","l","a","n","c","e","O","f">>,
      <<"t","r","a","n","s","f","e","r">>, <<"a","l","l","o","w","a","n","c","e">>,
      <<"a","p","p","r","o","v","e">>,
      <<"t","r","a","n","s","f","e","r","F","r","o","m">> }

_is_erc20_operation(function_name) == function_name \in erc20_functions

\* Web3.to_checksum_address accepts the value: a str "0x" followed by hex digits
is_address(value) ==
    /\ value.t = "str"
    /\ Len(value.v) > 2
    /\ SubSeq(value.v, 1, 2) = <<"0","x">>
    /\ \A i \in 3..Len(value.v) : value.v[i] \in Digits \cup {"a","b","c","d","e","f","A","B","C","D","E","F"}

ContractError(text, signed) ==
    [kind |-> "error", status |-> "error", type |-> "", error |-> text,
     signed |-> signed, sent |-> FALSE]

_call_contract_function(mock, env) ==
    IF mock THEN [raised |-> FALSE, result |-> "mock result"]
    ELSE IF env.read = "ok" THEN [raised |-> FALSE, result |-> "chain result"]
    ELSE [raised |-> TRUE, result |-> ""]

_send_transaction(mock, env) ==
    IF mock
    THEN [raised |-> FALSE, signed |-> FALSE, sent |-> FALSE, tx_hash |-> "mock hash"]
    ELSE CASE env.tx = "key_invalid" ->
                [raised |-> TRUE, signed |-> FALSE, sent |-> FALSE, tx_hash |-> ""]
           [] env.tx = "build_raise" ->
                [raised |-> TRUE, signed |-> FALSE, sent |-> FALSE, tx_hash |-> ""]
           [] env.tx = "send_raise" ->
                [raised |-> TRUE, signed |-> TRUE, sent |-> FALSE, tx_hash |-> ""]
           [] OTHER ->
                [raised |-> FALSE, signed |-> TRUE, sent |-> TRUE, tx_hash |-> "tx hash"]

\* variant: only the is_write_operation mark decides, mock mode is not asked
takes_call_path_unless_write(mock, is_write_operation) ==
    ~truthy(is_write_operation)

\* "if self.use_mock or not is_write_operation"
takes_call_path(mock, is_write_operation) ==
    mock \/ ~truthy(is_write_operation)

\* ContractTool.call on the dict params; private_key_set: PRIVATE_KEY is configured
contract_call(params, private_key_set, env) ==
    LET mock == ~private_key_set IN
    IF ~dict_has(params, "contract_address") \/ ~dict_has(params, "function_name")
    THEN ContractError("Missing required parameters: contract_address and function_name", FALSE)
    ELSE LET contract_address == dict_get(params, "contract_address", PyNone)
             function_name == dict_get(params, "function_name", PyNone)
             is_write_operation == dict_get(params, "is_write_operation", PyBool(FALSE))
             abi == dict_get(params, "abi", PyNone)
         IN  IF ~is_address(contract_address)
             THEN ContractError("invalid address", FALSE)
             ELSE IF ~truthy(abi) /\ ~_is_erc20_operation(function_name.v)
             THEN ContractError("ABI is required for this operation", FALSE)
             ELSE IF takes_call_path(mock, is_write_operation)
             THEN LET r == _call_contract_function(mock, env) IN
                  IF r.raised THEN ContractError("call failed", FALSE)
                  ELSE [kind |-> "result", status |-> "success",
                        type |-> IF ~truthy(is_write_operation) THEN "read" ELSE "mock_write",
                        result |-> r.result,
                        signed |-> FALSE, sent |-> FALSE]
             ELSE LET t == _send_transaction(mock, env) IN
                  IF t.raised THEN ContractError("transaction failed", t.signed)
                  ELSE [kind |-> "result", status |-> "success",
                        type |-> "write",
                        result |-> t.tx_hash,
                        signed |-> t.signed, sent |-> t.sent]

(***************************************************************************)
(* The profile store of main.py (class HODLBoxAgent): user_profiles maps a *)
(* user id to its profile; NoProfile stands for an id that is not a key.   *)
(* llm is the outcome of the chat-completion request: "ok", "raise", or    *)
(* "no_content" (the reply's content is None, so .strip() raises after the *)
(* profile was updated).                                                   *)
(***************************************************************************)
UserIds == {"u1", "u2"}

NoProfile ==
    [exists |-> FALSE, name |-> "", investment_plan |-> "None",
     created_at |-> 0, last_interaction |-> 0,
     mood_history |-> <<>>, motivational_boosts |-> 0]

create_user_profile(profiles, user_id, name, clock) ==
    [profiles EXCEPT ![user_id] =
        [exists |-> TRUE, name |-> name, investment_plan |-> "None",
         created_at |-> clock, last_interaction |-> clock,
         mood_history |-> <<>>, motivational_boosts |-> 0]]

update_investment_plan(profiles, user_id, plan, clock) ==
    IF profiles[user_id].exists
    THEN [profiles EXCEPT ![user_id].investment_plan = plan,
                          ![user_id].last_interaction = clock]
    ELSE profiles

\* variant: the boost is counted before the request is sent
generate_motivational_response_counts_first(profiles, user_id, emotion, market_state, llm, clock) ==
    IF ~profiles[user_id].exists
    THEN [profiles |-> profiles, text |-> "greeting"]
    ELSE LET counted == [profiles EXCEPT ![user_id].motivational_boosts = @ + 1] IN
         IF llm = "raise"
         THEN [profiles |-> counted, text |-> "fallback"]
         ELSE [profiles |->
                  [counted EXCEPT
                      ![user_id].last_interaction = clock,
                      ![user_id].mood_history =
                          Append(@, [timestamp |-> clock, emotion |-> emotion,
                                     market_state |-> market_state])],
               text |-> IF llm = "ok" THEN "reply" ELSE "fallback"]

generate_motivational_response(profiles, user_id, emotion, market_state, llm, clock) ==
    IF ~profiles[user_id].exists
    THEN [profiles |-> profiles, text |-> "greeting"]
    ELSE IF llm = "raise"
    THEN [profiles |-> profiles, text |-> "fallback"]
    ELSE [profiles |->
             [profiles EXCEPT
                 ![user_id].motivational_boosts = @ + 1,
                 ![user_id].last_interaction = clock,
                 ![user_id].mood_history =
                     Append(@, [timestamp |-> clock, emotion |-> emotion,
                                market_state |-> market_state])],
          text |-> IF llm = "ok" THEN "reply" ELSE "fallback"]

(***************************************************************************)
(* SwapAgent.validate_swap_intent (agents/swap_agent.py)                   *)
(***************************************************************************)
required_fields == <<"chain", "tkBuy", "tokenOut", "amount">>

validate_swap_intent(swap_intent) ==
    /\ \A i \in 1..Len(required_fields) : dict_has(swap_intent, required_fields[i])
    /\ \A i \in 1..Len(required_fields) :
          truthy(dict_get(swap_intent, required_fields[i], PyNone))

(***************************************************************************)
(* HODLBoxAgent (agents/base_agent.py), SwapAgent, MentalSupportAgent and  *)
(* DCAAgent.  The LLM backend is the environment: reply is what            *)
(* assistant.run produces for one call.                                    *)
(*   raises       the backend raises                                       *)
(*   empty        run yields nothing, last_response is {}                  *)
(*   otherwise    the last response, with the keys the has_* flags name    *)
(***************************************************************************)
SystemPrompt(agent) == <<agent, "system_prompt">>

SystemMessage(agent) == [role |-> "system", content |-> SystemPrompt(agent)]

\* HODLBoxAgent.__init__: self.messages
InitialMessages(agent) == <<SystemMessage(agent)>>

\* HODLBoxAgent.process_message on self.messages = history
process_message(history, user_message, reply) ==
    LET sent == Append(history, [role |-> "user", content |-> user_message])
    IN  [llm_in |-> sent,
         raised |-> reply.raises,
         response |-> reply,
         messages |->
            IF ~reply.raises /\ ~reply.empty /\ reply.has_content
            THEN Append(sent, [role |-> "assistant", content |-> reply.content])
            ELSE sent]

\* variant: the history is emptied, the system prompt included
reset_conversation_empty(agent) == <<>>

\* HODLBoxAgent.reset_conversation
reset_conversation(agent) == <<SystemMessage(agent)>>

NoIntent == [is_none |-> TRUE, value |-> <<>>]

\* SwapAgent._extract_swap_intent
_extract_swap_intent(response) ==
    LET calls == IF ~response.empty /\ response.has_tool_calls
                 THEN response.tool_calls ELSE <<>>
        results == IF ~response.empty /\ response.has_tool_results
                   THEN response.tool_results ELSE <<>>
        callHits == { i \in 1..Len(calls) : calls[i].name = "parse_swap_intent" }
        resultHits == { i \in 1..Len(results) : results[i].name = "parse_swap_intent" }
    IN  IF callHits /= {}
        THEN LET tc == calls[CHOOSE i \in callHits : \A j \in callHits : i <= j]
             IN  [is_none |-> FALSE,
                  value |-> IF tc.has_parameters THEN tc.parameters ELSE <<>>]
        ELSE IF resultHits /= {}
        THEN LET r == results[CHOOSE i \in resultHits : \A j \in resultHits : i <= j]
             IN  IF r.json_ok
                 THEN [is_none |-> FALSE, value |-> r.content]
                 ELSE NoIntent
        ELSE NoIntent

\* variant: any extracted intent counts, an empty one included
process_swap_request_any_intent(user_message, processed) ==
    LET swap_intent == _extract_swap_intent(processed.response) IN
    [original_message |-> user_message,
     response |-> processed.response,
     swap_intent |-> swap_intent,
     status |-> IF ~swap_intent.is_none THEN "success" ELSE "failed"]

\* SwapAgent.process_swap_request, given the outcome of process_message
process_swap_request(user_message, processed) ==
    LET swap_intent == _extract_swap_intent(processed.response) IN
    [original_message |-> user_message,
     response |-> processed.response,
     swap_intent |-> swap_intent,
     status |-> IF ~swap_intent.is_none /\ swap_intent.value /= <<>>
                THEN "success" ELSE "failed"]

\* MentalSupportAgent.provide_support; quote is the index random.choice picks
provide_support(user_message, market_state, processed, quote) ==
    LET emotion == analyze_emotion(user_message) IN
    [original_message |-> user_message,
     detected_emotion |-> emotion,
     market_state |-> market_state,
     response |-> processed.response,
     motivational_content |-> [quote |-> quote, encouragement |-> emotion],
     status |-> "success"]

\* DCAAgent.process_dca_request: the messages list is built per call
dca_llm_in(message) ==
    <<[role |-> "user",
       content |-> <<"P","a","r","s","e"," ","t","h","i","s"," ","D","C","A"," ",
                     "i","n","t","e","n","t",":"," ">> \o message]>>

\* the replies of the LLM backend that are told apart
BaseReply ==
    [raises |-> FALSE, empty |-> FALSE,
     has_content |-> FALSE, content |-> <<>>,
     has_tool_calls |-> FALSE, tool_calls |-> <<>>,
     has_tool_results |-> FALSE, tool_results |-> <<>>]

SampleParameters ==
    << <<"tkBuy", PyStr(<<"B","T","C">>)>>, <<"tkSell", PyStr(<<"U","S","D","T">>)>>,
       <<"count", PyStr(<<"1","0","0">>)>> >>

ToolCall(name, has_parameters, parameters) ==
    [name |-> name, has_parameters |-> has_parameters, parameters |-> parameters]

ToolResult(name, json_ok, content) ==
    [name |-> name, json_ok |-> json_ok, content |-> content]

LLMReplies ==
    { [BaseReply EXCEPT !.raises = TRUE],
      [BaseReply EXCEPT !.empty = TRUE],
      [BaseReply EXCEPT !.has_content = TRUE, !.content = <<"o","k">>],
      [BaseReply EXCEPT !.has_tool_calls = TRUE,
                        !.tool_calls = <<ToolCall("parse_swap_intent", TRUE, SampleParameters)>>],
      [BaseReply EXCEPT !.has_tool_calls = TRUE,
                        !.tool_calls = <<ToolCall("parse_swap_intent", TRUE, <<>>)>>],
      [BaseReply EXCEPT !.has_content = TRUE, !.content = <<"o","k">>,
                        !.has_tool_calls = TRUE,
                        !.tool_calls = <<ToolCall("get_market_data", TRUE, SampleParameters)>>,
                        !.has_tool_results = TRUE,
                        !.tool_results = <<ToolResult("parse_swap_intent", TRUE, SampleParameters)>>],
      [BaseReply EXCEPT !.has_content = TRUE, !.content = <<"o","k">>,
                        !.has_tool_results = TRUE,
                        !.tool_results = <<ToolResult("parse_swap_intent", FALSE, <<>>)>>] }

(***************************************************************************)
(* chat_endpoint (api.py).  The response is [status, type, payload]; an    *)
(* exception raised inside the try block, the HTTPException for a missing  *)
(* message included, is caught by "except Exception" and answered with     *)
(* status 500.                                                             *)
(***************************************************************************)
HttpError(status, cause) ==
    [status |-> status, type |-> "error", payload |-> cause]

HttpOk(type, payload) ==
    [status |-> 200, type |-> type, payload |-> payload]

\* len(self.motivational_quotes)
NumQuotes == 10

ClarificationText == "please give the symbol to query, e.g. BTC, ETH"

GeneralText == "HODL Box assistant: swaps, mental support, market data"

(***************************************************************************)
(* Inputs                                                                  *)
(***************************************************************************)
Strings(alphabet, n) == UNION { [1..k -> alphabet] : k \in 0..n }

TokenAlphabet == {"b","t","c","u","d","B","U","1","0","."," ","\\"}

ChainAlphabet == {"e","t","h","b","s","c","E","B","1"," "}

TokenInputs == Strings(TokenAlphabet, MaxLen)

ChainInputs == Strings(ChainAlphabet, MaxLen)

NoResult == <<"pending">>

\* Values a caller or the LLM tool-call layer supplies for each key; Absent
\* leaves the key out of the dict.
Absent == [t |-> "absent", v |-> <<>>]

ChainValues ==
    { Absent, PyNone, PyStr(<<>>), PyStr(<<" ">>), PyStr(<<"e","t","h">>),
      PyStr(<<"B","s","c">>), PyStr(<<"h","e","c","o">>) }

BuyValues ==
    { Absent, PyNone, PyStr(<<>>), PyStr(<<"b","t","c">>), PyStr(<<"E","T","H">>),
      PyStr(<<" ">>), PyInt(<<"5">>) }

SellValues ==
    { Absent, PyStr(<<>>), PyStr(<<"u">>), PyStr(<<" ","U"," ">>),
      PyStr(<<"1","0","0","u">>), PyStr(<<"5","0","u">>) }

CountValues ==
    { Absent, PyNone, PyStr(<<>>), PyStr(<<"1","0","0">>), PyStr(<<"0",".","5","0">>),
      PyInt(<<"0">>), PyInt(<<"5">>) }

AltBuyValues == { Absent, PyStr(<<"b","t","c">>) }

AltSellValues == { Absent, PyStr(<<"u">>) }

AltAmountValues == { Absent, PyStr(<<"1","0","0">>) }

KeyOrder ==
    <<"chain", "tkBuy", "tkSell", "count", "tokenBuy", "tokenSell", "amount">>

\* the dict holding, in KeyOrder, the keys whose chosen value is not Absent
RECURSIVE make_dict(_, _)
make_dict(choice, i) ==
    IF i > Len(KeyOrder) THEN <<>>
    ELSE IF choice[i] = Absent THEN make_dict(choice, i + 1)
    ELSE <<<<KeyOrder[i], choice[i]>>>> \o make_dict(choice, i + 1)

Choices ==
    { <<chain, tkBuy, tkSell, count, tokenBuy, tokenSell, amount>> :
        chain \in ChainValues, tkBuy \in BuyValues, tkSell \in SellValues,
        count \in CountValues, tokenBuy \in AltBuyValues,
        tokenSell \in AltSellValues, amount \in AltAmountValues }

SwapInputs ==
    { [isStr |-> b, items |-> make_dict(c, 1)] : b \in BOOLEAN, c \in Choices }


\* the dict of the pairs whose value is not Absent
RECURSIVE drop_absent(_)
drop_absent(items) ==
    IF items = <<>> THEN <<>>
    ELSE IF Head(items)[2] = Absent THEN drop_absent(Tail(items))
    ELSE <<Head(items)>> \o drop_absent(Tail(items))

\* Message texts: up to MaxWords fragments, each a keyword of one of the
\* sets, a ticker, a longer word, or filler.
Fragments ==
    { <<"U5B9A","U6295">>, <<"D","C","A">>, <<"s","w","a","p">>, <<"U4E70">>,
      <<"U62C5","U5FC3">>, <<"U4EF7","U683C">>, <<"p","r","i","c","e">>,
      <<"B","T","C">>, <<"b","i","t","c","o","i","n">>, <<" ">>, <<"x">>, <<"1">>,
      <<"U6015">>, <<"U8DCC">>, <<"U6DA8">> }

RECURSIVE Texts(_)
Texts(n) ==
    IF n = 0 THEN { <<>> }
    ELSE LET shorter == Texts(n - 1)
         IN  shorter \cup { t \o f : t \in shorter, f \in Fragments }

Messages == Texts(MaxWords)

\* the requests of a session with several requests
SessionMessages ==
    { <<"U4E70","B","T","C">>, <<"U62C5","U5FC3">>, <<"D","C","A">>,
      <<"U4EF7","U683C">>, <<"h","i">> }

\* pairs (change_24h, change_7d)
Changes ==
    { <<c24, c7>> : c24 \in (-(MaxChange24 * Unit))..(MaxChange24 * Unit),
                    c7 \in (-(MaxChange7d * Unit))..(MaxChange7d * Unit) }

\* what the provider answers, or the random draws of the mock after a failure
MarketEnvs ==
    { [fetch |-> "ok", price |-> 425, c24 |-> c[1], c7 |-> c[2]] : c \in Changes }
    \cup
    { [fetch |-> f, price |-> 0, c24 |-> c24, c7 |-> c7] :
        f \in {"network_error", "http_error", "not_found"},
        c24 \in MockChange24, c7 \in MockChange7d }

\* the provider behaviours told apart behind the chat endpoint
ChatMarketEnvs == { e \in MarketEnvs : e.c7 = 2 * e.c24 }

\* params dicts: without a usable symbol, and with a symbol and the optional keys
MarketParams ==
    { drop_absent(<< <<"symbol", symbol>>, <<"vs_currency", Absent>>,
                     <<"include_market_state", include>> >>) :
        symbol \in { Absent, PyNone, PyStr(<<>>) },
        include \in { Absent, PyBool(FALSE) } }
    \cup
    { drop_absent(<< <<"symbol", PyStr(<<"b","t","c">>)>>, <<"vs_currency", Absent>>,
                     <<"include_market_state", include>> >>) :
        include \in { Absent, PyBool(TRUE), PyBool(FALSE) } }
    \cup
    { drop_absent(<< <<"symbol", PyStr(<<"D","o","g","e">>)>>,
                     <<"vs_currency", PyStr(<<"E","U","R">>)>>,
                     <<"include_market_state", include>> >>) :
        include \in { Absent, PyBool(FALSE) } }

\* COINMARKETCAP_API_KEY set or not, MARKET_DATA_API_URL naming coinmarketcap or not
MockSettings ==
    { [api_key_set |-> k, url_has_coinmarketcap |-> u] : k \in BOOLEAN, u \in BOOLEAN }

\* the random draws of a tool in mock mode, which sends no request
MockEnvs ==
    { [fetch |-> "none", price |-> 0, c24 |-> c24, c7 |-> c7] :
        c24 \in MockChange24, c7 \in MockChange7d }

\* the default settings (no key, provider URL) with every provider behaviour,
\* the mock settings with every draw, the settings with a key with the
\* provider behaviours of ChatMarketEnvs
MarketInputs ==
    { [params |-> p, env |-> e,
       settings |-> [api_key_set |-> FALSE, url_has_coinmarketcap |-> FALSE]] :
        p \in MarketParams, e \in MarketEnvs }
    \cup
    { [params |-> p, env |-> e, settings |-> c] :
        p \in MarketParams, e \in MockEnvs,
        c \in { x \in MockSettings : use_mock_of(x.api_key_set, x.url_has_coinmarketcap) } }
    \cup
    { [params |-> p, env |-> e, settings |-> c] :
        p \in MarketParams, e \in ChatMarketEnvs,
        c \in { x \in MockSettings : x.api_key_set } }

IntentInputs ==
    { drop_absent(<< <<"chain", chain>>, <<"tkBuy", tkBuy>>, <<"tkSell", tkSell>>,
                     <<"count", count>>, <<"tokenIn", tokenIn>>,
                     <<"tokenOut", tokenOut>>, <<"amount", amount>> >>) :
        chain \in { Absent, PyStr(<<>>), PyStr(<<"E","t","h">>) },
        tkBuy \in { Absent, PyStr(<<>>), PyStr(<<"B","T","C">>) },
        tkSell \in { Absent, PyStr(<<>>), PyStr(<<"U","S","D","T">>) },
        count \in { Absent, PyStr(<<"1","0","0">>) },
        tokenIn \in { Absent, PyStr(<<"U","S","D","T">>) },
        tokenOut \in { Absent, PyStr(<<>>), PyStr(<<"B","T","C">>) },
        amount \in { Absent, PyNone, PyStr(<<>>), PyStr(<<"1","0","0">>) } }


\* the messages given to process_message when the agent is called directly
AgentMessages == { <<"h","i">>, <<"U4E70","B","T","C">> }

ContractParams ==
    { drop_absent(<< <<"contract_address", address>>, <<"function_name", function_name>>,
                     <<"is_write_operation", is_write>>, <<"abi", abi>> >>) :
        address \in { Absent, PyStr(<<"0","x","d","A","C","1">>), PyStr(<<"u","s","d","t">>) },
        function_name \in { Absent, PyStr(<<"s","y","m","b","o","l">>),
                            PyStr(<<"t","r","a","n","s","f","e","r">>),
                            PyStr(<<"s","t","a","k","e">>) },
        is_write \in { Absent, PyBool(FALSE), PyBool(TRUE), PyInt(<<"1">>) },
        abi \in { Absent, PyStr(<<"a","b","i">>) } }

ChainEnvs ==
    { [read |-> r, tx |-> t] :
        r \in {"ok", "raise"},
        t \in {"ok", "key_invalid", "build_raise", "send_raise"} }

\* private_key_set: the PRIVATE_KEY environment variable is non-empty
ContractInputs ==
    { [params |-> p, private_key_set |-> k, env |-> e] :
        p \in ContractParams, k \in BOOLEAN, e \in ChainEnvs }

(***************************************************************************)
(* State machine: Init draws the operation and its input, one action per   *)
(* operation applies it.                                                   *)
(***************************************************************************)
\* api.py lines 45-50: the agents and the market tool are built once, when
\* the module is loaded
InitAgents ==
    /\ messages = [swap |-> InitialMessages("swap"),
                   mental_support |-> InitialMessages("mental_support")]
    /\ llm_in = <<>>
    /\ served = 0
    /\ user_profiles = [u \in UserIds |-> NoProfile]

agents == <<use_mock, messages, llm_in, served, user_profiles>>

InitToken ==
    /\ op = "normalize_token"
    /\ arg \in TokenInputs
    /\ now = 0
    /\ pc = "call"
    /\ res = NoResult
    /\ use_mock = FALSE
    /\ InitAgents

InitChain ==
    /\ op = "normalize_chain"
    /\ arg \in ChainInputs
    /\ now = 0
    /\ pc = "call"
    /\ res = NoResult
    /\ use_mock = FALSE
    /\ InitAgents

InitSwap ==
    /\ op = "call"
    /\ arg \in SwapInputs
    /\ now \in 0..MaxClock
    /\ pc = "call"
    /\ res = NoResult
    /\ use_mock = FALSE
    /\ InitAgents

InitEmotion ==
    /\ op = "analyze_emotion"
    /\ arg \in Messages
    /\ now = 0
    /\ pc = "call"
    /\ res = NoResult
    /\ use_mock = FALSE
    /\ InitAgents

InitMarketState ==
    /\ op = "analyze_market_state"
    /\ arg \in Changes
    /\ now = 0
    /\ pc = "call"
    /\ res = NoResult
    /\ use_mock = FALSE
    /\ InitAgents

InitMarketCall ==
    /\ op = "market_call"
    /\ arg \in MarketInputs
    /\ now = 0
    /\ pc = "call"
    /\ res = NoResult
    /\ use_mock = use_mock_of(arg.settings.api_key_set, arg.settings.url_has_coinmarketcap)
    /\ InitAgents

InitValidate ==
    /\ op = "validate_swap_intent"
    /\ arg \in IntentInputs
    /\ now = 0
    /\ pc = "call"
    /\ res = NoResult
    /\ use_mock = FALSE
    /\ InitAgents

InitContract ==
    /\ op = "contract_call"
    /\ arg \in ContractInputs
    /\ now = 0
    /\ pc = "call"
    /\ res = NoResult
    /\ use_mock = ~arg.private_key_set
    /\ InitAgents

\* a SwapAgent, which is a HODLBoxAgent, called directly
InitAgent ==
    /\ op = "agent"
    /\ arg = <<>>
    /\ now = 0
    /\ pc = "idle"
    /\ res = NoResult
    /\ use_mock = FALSE
    /\ InitAgents

\* main.py: a HODLBoxAgent started without a user_profiles.json file
InitProfiles ==
    /\ op = "profiles"
    /\ arg = <<>>
    /\ now \in 0..MaxClock
    /\ pc = "idle"
    /\ res = NoResult
    /\ use_mock = FALSE
    /\ InitAgents

\* one POST /api/chat to a freshly started server
InitChat ==
    /\ op = "chat"
    /\ arg \in Messages
    /\ now = 0
    /\ pc = "call"
    /\ res = NoResult
    /\ use_mock = FALSE
    /\ InitAgents

\* a server that goes on to handle up to MaxRequests requests
InitServe ==
    /\ op = "serve"
    /\ arg \in SessionMessages \cup { <<>> }
    /\ now = 0
    /\ pc = "call"
    /\ res = NoResult
    /\ use_mock = FALSE
    /\ InitAgents

Init ==
    \/ InitToken
    \/ InitChain
    \/ InitSwap
    \/ InitEmotion
    \/ InitMarketState
    \/ InitMarketCall
    \/ InitValidate
    \/ InitContract
    \/ InitAgent
    \/ InitProfiles
    \/ InitChat
    \/ InitServe

NormalizeToken ==
    /\ pc = "call"
    /\ op = "normalize_token"
    /\ res' = _normalize_token(arg)
    /\ pc' = "done"
    /\ UNCHANGED <<op, arg, now, agents>>

NormalizeChain ==
    /\ pc = "call"
    /\ op = "normalize_chain"
    /\ res' = _normalize_chain(arg)
    /\ pc' = "done"
    /\ UNCHANGED <<op, arg, now, agents>>

\* the normalizer applied to a symbol it has itself produced
NormalizeTokenAgain ==
    /\ pc = "done"
    /\ op = "normalize_token"
    /\ res' = _normalize_token(res)
    /\ pc' = "again"
    /\ UNCHANGED <<op, arg, now, agents>>

Call ==
    /\ pc = "call"
    /\ op = "call"
    /\ res' = call(arg, now)
    /\ pc' = "done"
    /\ UNCHANGED <<op, arg, now, agents>>

AnalyzeEmotion ==
    /\ pc = "call"
    /\ op = "analyze_emotion"
    /\ res' = analyze_emotion(arg)
    /\ pc' = "done"
    /\ UNCHANGED <<op, arg, now, agents>>

AnalyzeMarketState ==
    /\ pc = "call"
    /\ op = "analyze_market_state"
    /\ res' = _analyze_market_state(arg[1], arg[2])
    /\ pc' = "done"
    /\ UNCHANGED <<op, arg, now, agents>>

MarketCall ==
    /\ pc = "call"
    /\ op = "market_call"
    /\ res' = market_call(arg.params, use_mock, arg.env, now)
    /\ pc' = "done"
    /\ UNCHANGED <<op, arg, now, agents>>

ValidateSwapIntent ==
    /\ pc = "call"
    /\ op = "validate_swap_intent"
    /\ res' = validate_swap_intent(arg)
    /\ pc' = "done"
    /\ UNCHANGED <<op, arg, now, agents>>

ContractCall ==
    /\ pc = "call"
    /\ op = "contract_call"
    /\ res' = contract_call(arg.params, arg.private_key_set, arg.env)
    /\ pc' = "done"
    /\ UNCHANGED <<op, arg, now, agents>>

\* chat_endpoint, one branch per route; reply is what the LLM backend does,
\* env what the market-data provider does, quote the motivational quote drawn
ChatDCA(message) ==
    \E reply \in LLMReplies :
        /\ llm_in' = dca_llm_in(message)
        /\ res' = IF reply.raises
                  THEN HttpError(500, "Exception")
                  ELSE HttpOk("dca", [status |-> "success", data |-> reply])
        /\ UNCHANGED messages

ChatSwap(message) ==
    \E reply \in LLMReplies :
        LET processed == process_message(messages.swap, message, reply) IN
        /\ llm_in' = processed.llm_in
        /\ messages' = [messages EXCEPT !.swap = processed.messages]
        /\ res' = IF processed.raised
                  THEN HttpError(500, "Exception")
                  ELSE HttpOk("swap", process_swap_request(message, processed))

ChatMentalSupport(message) ==
    \E reply \in LLMReplies, quote \in 1..NumQuotes :
        LET processed == process_message(messages.mental_support, message, reply) IN
        /\ llm_in' = processed.llm_in
        /\ messages' = [messages EXCEPT !.mental_support = processed.messages]
        /\ res' = IF processed.raised
                  THEN HttpError(500, "Exception")
                  ELSE HttpOk("mental_support",
                              provide_support(message, "neutral", processed, quote))

ChatMarketData(message) ==
    LET symbol == symbol_match(lower(message)) IN
    /\ IF symbol /= <<>>
       THEN \E env \in ChatMarketEnvs :
               res' = HttpOk("market_data",
                             market_call(<< <<"symbol", PyStr(symbol)>> >>,
                                         use_mock, env, now))
       ELSE res' = HttpOk("clarification", ClarificationText)
    /\ llm_in' = <<>>
    /\ UNCHANGED messages

\* variant: no default branch, the request fails
ChatGeneral_no_fallback ==
    /\ res' = HttpError(500, "Exception")
    /\ llm_in' = <<>>
    /\ UNCHANGED messages

ChatGeneral ==
    /\ res' = HttpOk("general", GeneralText)
    /\ llm_in' = <<>>
    /\ UNCHANGED messages

ChatRequest ==
    /\ pc = "call"
    /\ op \in {"chat", "serve"}
    /\ IF arg = <<>>
       THEN /\ res' = HttpError(500, "400: Message is required")
            /\ llm_in' = <<>>
            /\ UNCHANGED messages
       ELSE LET branch == route(lower(arg)) IN
            CASE branch = "dca" -> ChatDCA(arg)
              [] branch = "swap" -> ChatSwap(arg)
              [] branch = "mental_support" -> ChatMentalSupport(arg)
              [] branch = "market_data" -> ChatMarketData(arg)
              [] OTHER -> ChatGeneral
    /\ served' = served + 1
    /\ pc' = "done"
    /\ UNCHANGED <<op, arg, now, use_mock, user_profiles>>

\* the next request arrives at the same server process
NextChatRequest ==
    /\ pc = "done"
    /\ op = "serve"
    /\ served < MaxRequests
    /\ arg' \in SessionMessages
    /\ res' = NoResult
    /\ llm_in' = <<>>
    /\ pc' = "call"
    /\ UNCHANGED <<op, now, use_mock, messages, served, user_profiles>>

\* HODLBoxAgent.process_message; an exception of the backend propagates
ProcessMessage ==
    /\ op = "agent"
    /\ pc \in {"idle", "processed", "raised", "reset"}
    /\ served < MaxRequests
    /\ \E message \in AgentMessages, reply \in LLMReplies :
          LET processed == process_message(messages.swap, message, reply) IN
          /\ arg' = message
          /\ llm_in' = processed.llm_in
          /\ messages' = [messages EXCEPT !.swap = processed.messages]
          /\ res' = IF processed.raised THEN Raise("Exception")
                    ELSE [kind |-> "response", response |-> processed.response]
          /\ pc' = IF processed.raised THEN "raised" ELSE "processed"
    /\ served' = served + 1
    /\ UNCHANGED <<op, now, use_mock, user_profiles>>

ResetConversation ==
    /\ op = "agent"
    /\ pc \in {"idle", "processed", "raised", "reset"}
    /\ served < MaxRequests
    /\ messages' = [messages EXCEPT !.swap = reset_conversation("swap")]
    /\ arg' = <<>>
    /\ res' = NoResult
    /\ pc' = "reset"
    /\ served' = served + 1
    /\ UNCHANGED <<op, now, use_mock, llm_in, user_profiles>>

ProfileCall ==
    /\ op = "profiles"
    /\ served < MaxRequests
    /\ served' = served + 1
    /\ UNCHANGED <<op, now, res, use_mock, messages, llm_in>>

CreateUserProfile(user_id) ==
    /\ ProfileCall
    /\ user_profiles' = create_user_profile(user_profiles, user_id, "name", now)
    /\ arg' = <<user_id>>
    /\ pc' = "created"

UpdateInvestmentPlan(user_id) ==
    /\ ProfileCall
    /\ user_profiles' = update_investment_plan(user_profiles, user_id, "plan", now)
    /\ arg' = <<user_id>>
    /\ pc' = "updated"

GenerateMotivationalResponse(user_id, llm) ==
    /\ ProfileCall
    /\ \E emotion \in {"fearful", "calm"} :
          LET r == generate_motivational_response(user_profiles, user_id, emotion,
                                                  "bull", llm, now)
          IN  /\ user_profiles' = r.profiles
              /\ pc' = r.text
    /\ arg' = <<user_id>>

Profiles ==
    \E user_id \in UserIds :
        \/ CreateUserProfile(user_id)
        \/ UpdateInvestmentPlan(user_id)
        \/ \E llm \in {"ok", "raise", "no_content"} :
               GenerateMotivationalResponse(user_id, llm)

Next ==
    \/ NormalizeToken
    \/ NormalizeTokenAgain
    \/ NormalizeChain
    \/ Call
    \/ AnalyzeEmotion
    \/ AnalyzeMarketState
    \/ MarketCall
    \/ ValidateSwapIntent
    \/ ContractCall
    \/ ChatRequest
    \/ NextChatRequest
    \/ ProcessMessage
    \/ ResetConversation
    \/ Profiles

Spec == Init /\ [][Next]_vars

(***************************************************************************)
(* Vocabulary of the properties                                            *)
(***************************************************************************)
Done(o) == pc = "done" /\ op = o

AllWhitespace(s) == \A i \in 1..Len(s) : s[i] \in Whitespace

\* s is the lower-case word a up to letter case and surrounding whitespace
IsVariantOf(s, a) ==
    \E pre \in 0..Len(s) :
        /\ pre + Len(a) <= Len(s)
        /\ \A i \in 1..pre : s[i] \in Whitespace
        /\ \A i \in (pre + Len(a) + 1)..Len(s) : s[i] \in Whitespace
        /\ \A i \in 1..Len(a) :
              s[pre + i] = a[i] \/ <<a[i], s[pre + i]>> \in CasePairs

\* digits at i..j, j >= i
DigitRun(s, i, j) == i >= 1 /\ j >= i /\ j <= Len(s) /\ AllIn(s, i, j, Digits)

\* the whole of s is: one or more digits, optional decimal part, "u"
IsShorthandAmount(s) ==
    /\ Len(s) >= 2
    /\ s[Len(s)] = "u"
    /\ \/ DigitRun(s, 1, Len(s) - 1)
       \/ \E k \in 2..(Len(s) - 2) :
             /\ DigitRun(s, 1, k - 1)
             /\ s[k] = "."
             /\ DigitRun(s, k + 1, Len(s) - 1)

\* some key of the required triple is missing from the dict or falsy
MissingRequired(d) ==
    \E key \in {"tkBuy", "tkSell", "count"} :
        \/ ~dict_has(d, key)
        \/ ~truthy(dict_get(d, key, PyNone))

IsMissingFieldPayload(r, d) ==
    /\ r.kind = "error"
    /\ r.error = "Missing required parameters"
    /\ r.required = <<"tkBuy", "tkSell", "count">>
    /\ r.provided = dict_keys(d)

(***************************************************************************)
(* C1: SwapIntentTool.call returns the MissingField error payload if and   *)
(* only if one of tkBuy, tkSell, count is absent or falsy, and for every   *)
(* other input it returns an intent with valid = true.                     *)
(***************************************************************************)
C1_ErrorIffMissingElseValid ==
    Done("call") =>
        /\ IsMissingFieldPayload(res, arg.items) <=> MissingRequired(arg.items)
        /\ ~MissingRequired(arg.items) => (res.kind = "intent" /\ res.valid)

(***************************************************************************)
(* C2: in every successful output of call the alias fields mirror the      *)
(* canonical ones (tokenIn = tkSell, tokenOut = tkBuy, amount = amountIn = *)
(* count) and count is the input amount kept as text.                      *)
(***************************************************************************)
C2_AliasesMirror ==
    (Done("call") /\ res.kind = "intent") =>
        /\ res.tokenIn = res.tkSell
        /\ res.tokenOut = res.tkBuy
        /\ res.amount = res.count
        /\ res.amountIn = res.count
        /\ res.count = dict_get(arg.items, "count", PyNone).v

C2_Witness ==
    /\ Done("call")
    /\ res.kind = "intent"
    /\ dict_get(arg.items, "count", PyNone) = PyStr(<<"0",".","5","0">>)
    /\ res.amountIn = <<"0",".","5","0">>
    /\ res.tokenIn /= res.tokenOut

(***************************************************************************)
(* C3: for every key a of the token alias table and every variant of a in  *)
(* letter case or surrounding whitespace, the normalizer returns table[a]. *)
(***************************************************************************)
C3_AliasLookup ==
    Done("normalize_token") =>
        \A a \in DOMAIN common_tokens :
            IsVariantOf(arg, a) => res = common_tokens[a]

C3_Witness ==
    /\ Done("normalize_token")
    /\ arg = <<" ","B","t","c">>
    /\ res = <<"B","T","C">>

(***************************************************************************)
(* C4: the normalizer returns "USDT" for every input of the shape digits,  *)
(* optional decimal part, "u" (100u, 50u, 2.5u).                           *)
(***************************************************************************)
C4_ShorthandIsUSDT ==
    (Done("normalize_token") /\ IsShorthandAmount(arg)) => res = USDT

(***************************************************************************)
(* C5: for every token that is neither an alias-table key nor a            *)
(* shorthand-amount match, the normalizer returns the trimmed input        *)
(* upper-cased.                                                            *)
(***************************************************************************)
C5_UnknownUppercased ==
    ( /\ Done("normalize_token")
      /\ strip(lower(arg)) \notin DOMAIN common_tokens
      /\ ~amount_match_unescaped(strip(lower(arg))) )
    => res = upper(strip(arg))

(***************************************************************************)
(* C6: token normalization is idempotent: normalizing a symbol the         *)
(* normalizer produced returns that symbol.                                *)
(***************************************************************************)
C6_Idempotent ==
    [][(op = "normalize_token" /\ pc = "done" /\ pc' = "again") => res' = res]_vars

C6_Witness ==
    /\ op = "normalize_token"
    /\ pc = "again"
    /\ arg = <<"1","0","0","u">>
    /\ res = <<"1","0","0"," ","U","S","D","T">>

(***************************************************************************)
(* C7: the chain normalizer returns "default" for an empty or blank chain  *)
(* and for a swap request without a chain, and the canonical name for      *)
(* every alias key in any letter case and surrounding whitespace.          *)
(***************************************************************************)
C7_ChainDefaultAndAliases ==
    /\ Done("normalize_chain") =>
          /\ AllWhitespace(arg) => res = <<"d","e","f","a","u","l","t">>
          /\ \A a \in DOMAIN chain_mapping :
                IsVariantOf(arg, a) => res = chain_mapping[a]
    /\ (Done("call") /\ res.kind = "intent" /\ ~dict_has(arg.items, "chain"))
          => res.chain = <<"d","e","f","a","u","l","t">>

C7_Witness ==
    /\ Done("normalize_chain")
    /\ arg = <<" ","E","t","h">>
    /\ res = <<"E","t","h","e","r","e","u","m">>

(***************************************************************************)
(* C8: a non-blank chain that is no alias key is passed through, trimmed,  *)
(* with its first character capitalized and no other capital.              *)
(***************************************************************************)
C8_UnknownChainCapitalized ==
    ( /\ Done("normalize_chain")
      /\ ~AllWhitespace(arg)
      /\ \A a \in DOMAIN chain_mapping : ~IsVariantOf(arg, a) )
    => LET t == strip(arg) IN
       /\ Len(res) = Len(t)
       /\ \A i \in 1..Len(t) :
             /\ res[i] = t[i] \/ <<res[i], t[i]>> \in CasePairs
                              \/ <<t[i], res[i]>> \in CasePairs
             /\ i = 1 => ~(\E p \in CasePairs : p[1] = res[i])
             /\ i > 1 => ~(\E p \in CasePairs : p[2] = res[i])

C8_Witness ==
    /\ Done("normalize_chain")
    /\ arg = <<"h","E"," ","b">>
    /\ res = <<"H","e"," ","b">>

(***************************************************************************)
(* C9 as stated: the values given under tokenBuy/tokenSell/amount are      *)
(* normalized to the same intent as under tkBuy/tkSell/count.              *)
(***************************************************************************)
HasOnlyAltNaming(d) ==
    /\ \A i \in 1..3 : dict_has(d, AltNames[i]) /\ ~dict_has(d, Required[i])

\* the same values under the tkBuy/tkSell/count names
Renamed(d) ==
    [i \in 1..Len(d) |->
        IF \E k \in 1..3 : AltNames[k] = d[i][1]
        THEN <<Required[CHOOSE k \in 1..3 : AltNames[k] = d[i][1]], d[i][2]>>
        ELSE d[i]]

C9_EitherNamingAccepted ==
    (Done("call") /\ ~arg.isStr /\ HasOnlyAltNaming(arg.items)) =>
        res = call([isStr |-> FALSE, items |-> Renamed(arg.items)], now)

(***************************************************************************)
(* C9 amended: only tkBuy/tkSell/count are read.  A request that gives the *)
(* values under tokenBuy/tokenSell/amount alone yields no intent (as a     *)
(* dict it gets the MissingField payload), and an intent never depends on  *)
(* those three keys.                                                       *)
(***************************************************************************)
WithoutAltNames(d) ==
    SelectSeq(d, LAMBDA item : \A k \in 1..3 : AltNames[k] /= item[1])

C9_OnlyTkNamingAccepted ==
    Done("call") =>
        /\ HasOnlyAltNaming(arg.items) =>
              /\ res.kind /= "intent"
              /\ ~arg.isStr => IsMissingFieldPayload(res, arg.items)
        /\ res.kind = "intent" =>
              res = call([isStr |-> FALSE, items |-> WithoutAltNames(arg.items)], now)

C9_Witness ==
    /\ Done("call")
    /\ ~arg.isStr
    /\ HasOnlyAltNaming(arg.items)
    /\ res.kind = "error"
    /\ call([isStr |-> FALSE, items |-> Renamed(arg.items)], now).kind = "intent"

(***************************************************************************)
(* C10: call never throws past its boundary: it returns the structured     *)
(* error payload or a normalized intent for every payload.                 *)
(***************************************************************************)
C10_NeverRaises ==
    Done("call") => res.kind \in {"error", "intent"}

(***************************************************************************)
(* Vocabulary of the claims about the chat router and the agents           *)
(***************************************************************************)
Handled == pc = "done" /\ op \in {"chat", "serve"}

KeywordSets ==
    << [name |-> "dca", keywords |-> dca_keywords],
       [name |-> "swap", keywords |-> swap_keywords],
       [name |-> "mental_support", keywords |-> mental_support_keywords],
       [name |-> "market_data", keywords |-> market_data_keywords] >>

\* the category of the first keyword set with a substring hit, else general
FirstHit(text) ==
    LET hits == { i \in 1..Len(KeywordSets) : any_keyword(text, KeywordSets[i].keywords) }
    IN  IF hits = {} THEN "general"
        ELSE KeywordSets[CHOOSE i \in hits : \A j \in hits : i <= j].name

\* the category a response stands for; a clarification is asked only on the
\* market_data branch
Category(r) == IF r.type = "clarification" THEN "market_data" ELSE r.type

\* the request reached a branch of the router: it was answered by the branch,
\* or the LLM backend of the branch was called and failed
Classified == res.status = 200 \/ llm_in /= <<>>

LetterRun(s, i, n) ==
    /\ i >= 1
    /\ i + n - 1 <= Len(s)
    /\ \A k \in i..(i + n - 1) : s[k] \in AsciiLetters

HasSymbolToken(s) == \E i \in 1..Len(s) : LetterRun(s, i, 2)

EmotionSets ==
    << [name |-> "fearful", keywords |-> fearful_keywords],
       [name |-> "excited", keywords |-> excited_keywords],
       [name |-> "frustrated", keywords |-> frustrated_keywords] >>

C14_EmotionOrder ==
    Done("analyze_emotion") =>
        LET hits == { i \in 1..Len(EmotionSets) : any_keyword(arg, EmotionSets[i].keywords) }
        IN  IF hits = {} THEN res = "neutral"
            ELSE res = EmotionSets[CHOOSE i \in hits : \A j \in hits : i <= j].name

C14_Witness ==
    /\ Done("analyze_emotion")
    /\ any_keyword(arg, fearful_keywords)
    /\ any_keyword(arg, frustrated_keywords)
    /\ res = "fearful"

(***************************************************************************)
(* C15: the trend is that of the first satisfied branch in the order bull  *)
(* market (24h > 5 and 7d > 10), uptrend (both > 0), bear market (24h < -5 *)
(* and 7d < -10), downtrend (both < 0), else sideways; the comparisons are *)
(* strict, so a value on a threshold falls to a later branch.              *)
(***************************************************************************)
C15_TrendBranchOrder ==
    Done("analyze_market_state") =>
        LET c24 == arg[1]
            c7 == arg[2]
            bull == c24 > 5 * Unit /\ c7 > 10 * Unit
            up == c24 > 0 /\ c7 > 0
            bear == c24 < -(5 * Unit) /\ c7 < -(10 * Unit)
            down == c24 < 0 /\ c7 < 0
        IN  /\ bull => res.trend = "bull_market"
            /\ (~bull /\ up) => res.trend = "uptrend"
            /\ (~bull /\ ~up /\ bear) => res.trend = "bear_market"
            /\ (~bull /\ ~up /\ ~bear /\ down) => res.trend = "downtrend"
            /\ (~bull /\ ~up /\ ~bear /\ ~down) => res.trend = "sideways"

C15_Witness ==
    /\ Done("analyze_market_state")
    /\ arg = <<5 * Unit, 12 * Unit>>
    /\ res.trend = "uptrend"

(***************************************************************************)
(* C16: volatility is high when abs(24h change) > 3, medium when it is     *)
(* above 1 and at most 3, low when it is at most 1, whatever the 7d change *)
(* and the trend.                                                          *)
(***************************************************************************)
C16_VolatilityFrom24hOnly ==
    Done("analyze_market_state") =>
        LET a == abs(arg[1]) IN
        /\ a > 3 * Unit => res.volatility = "high"
        /\ (a > Unit /\ a <= 3 * Unit) => res.volatility = "medium"
        /\ a <= Unit => res.volatility = "low"

C16_Witness ==
    /\ Done("analyze_market_state")
    /\ arg[1] = -(3 * Unit)
    /\ res.trend = "downtrend"
    /\ res.volatility = "medium"

(***************************************************************************)
(* C17: the advice of every analysis is the populated cell of the 5x3      *)
(* table for its (trend, volatility); the fallback text is never returned. *)
(***************************************************************************)
IsTableCell(state) ==
    /\ state.trend \in {"bull_market", "uptrend", "bear_market", "downtrend", "sideways"}
    /\ state.volatility \in {"high", "medium", "low"}
    /\ state.advice = advice_map[state.trend][state.volatility]
    /\ state.advice /= FallbackAdvice

C17_AdviceIsTableCell ==
    /\ Done("analyze_market_state") => IsTableCell(res)
    /\ (Done("market_call") /\ res.kind = "data" /\ res.has_market_state) =>
          IsTableCell(res.market_state)

C17_Witness ==
    /\ Done("analyze_market_state")
    /\ res.trend = "sideways"
    /\ res.volatility = "high"
    /\ res.advice = advice_map.sideways.high

(***************************************************************************)
(* C18: requests are independent: the messages handed to the LLM for a     *)
(* request are those of a conversation begun by that request, whatever     *)
(* requests were handled before it.                                        *)
(***************************************************************************)
FreshInput(message) ==
    LET branch == FirstHit(lower(message))
        user == [role |-> "user", content |-> message]
    IN  CASE branch = "dca" -> dca_llm_in(message)
          [] branch = "swap" -> <<SystemMessage("swap"), user>>
          [] branch = "mental_support" -> <<SystemMessage("mental_support"), user>>
          [] OTHER -> <<>>

C18_RequestsIndependent ==
    (Handled /\ arg /= <<>>) => llm_in = FreshInput(arg)

(***************************************************************************)
(* C19: MarketDataTool.call with a non-empty symbol, when the fetch fails  *)
(* (network error, bad HTTP status, symbol unknown to the provider),       *)
(* returns the mock snapshot: status success, the upper-cased symbol, a    *)
(* price, the 24h change and, when requested, a market_state with trend,   *)
(* volatility and advice.                                                  *)
(***************************************************************************)
GivenSymbol(params) == dict_get(params, "symbol", PyStr(<<>>))

C19_FetchFailureFallsBack ==
    ( /\ Done("market_call")
      /\ GivenSymbol(arg.params).t = "str"
      /\ GivenSymbol(arg.params).v /= <<>>
      /\ arg.env.fetch /= "ok" ) =>
        /\ res.kind = "data"
        /\ res.status = "success"
        /\ res.data.status = "success"
        /\ res.data.symbol = upper(GivenSymbol(arg.params).v)
        /\ res.data.price > 0
        /\ res.data.price_change_percentage_24h = arg.env.c24
        /\ res.data.source = "Mock Data"
        /\ truthy(dict_get(arg.params, "include_market_state", PyBool(TRUE))) =>
              /\ res.has_market_state
              /\ res.market_state.trend /= ""
              /\ res.market_state.volatility /= ""
              /\ res.market_state.advice /= ""

C19_Witness ==
    /\ Done("market_call")
    /\ ~use_mock
    /\ arg.env.fetch = "network_error"
    /\ GivenSymbol(arg.params) = PyStr(<<"D","o","g","e">>)
    /\ res.status = "success"
    /\ res.data.symbol = <<"D","O","G","E">>
    /\ res.has_market_state

(***************************************************************************)
(* C20: validate_swap_intent returns True if and only if the intent has    *)
(* the chain, the buy token, the sell token and the amount, each with a    *)
(* non-empty value; an intent without a sell token is rejected.            *)
(***************************************************************************)
Carries(intent, names) ==
    \E key \in names :
        dict_has(intent, key) /\ truthy(dict_get(intent, key, PyNone))

C20_ValidIffAllFourFields ==
    Done("validate_swap_intent") =>
        /\ res => /\ Carries(arg, {"chain"})
                  /\ Carries(arg, {"tkBuy", "tokenOut"})
                  /\ Carries(arg, {"tkSell", "tokenIn"})
                  /\ Carries(arg, {"amount", "count"})
        /\ ( \A key \in {"chain", "tkBuy", "tkSell", "count", "tokenIn", "tokenOut", "amount"} :
                Carries(arg, {key}) ) => res

(***************************************************************************)
(* C21: process_swap_request returns status success exactly when a         *)
(* non-empty swap intent was extracted from the agent response, failed     *)
(* otherwise, and echoes the message it was given as original_message.     *)
(***************************************************************************)
SwapAnswered == Handled /\ res.status = 200 /\ res.type = "swap"

C21_SuccessIffIntentExtracted ==
    SwapAnswered =>
        LET extracted == _extract_swap_intent(res.payload.response) IN
        /\ res.payload.swap_intent = extracted
        /\ res.payload.status \in {"success", "failed"}
        /\ res.payload.status = "success" <=> (~extracted.is_none /\ Len(extracted.value) > 0)
        /\ res.payload.original_message = arg

C21_Witness ==
    /\ SwapAnswered
    /\ ~res.payload.swap_intent.is_none
    /\ res.payload.swap_intent.value = <<>>
    /\ res.payload.status = "failed"

(***************************************************************************)
(* C22: ContractTool signs and broadcasts a transaction only when the call *)
(* is marked is_write_operation (a true value) and a private key is        *)
(* configured; a read call and any call in mock mode never reach signing,  *)
(* and the reported type is write only when a transaction was sent, read   *)
(* or mock_write otherwise.                                                *)
(***************************************************************************)
MarkedWrite(params) == truthy(dict_get(params, "is_write_operation", PyBool(FALSE)))

C22_SignsOnlyKeyedWrites ==
    Done("contract_call") =>
        /\ (res.signed \/ res.sent) => (MarkedWrite(arg.params) /\ arg.private_key_set)
        /\ res.sent => res.signed
        /\ res.type = "write" => res.sent
        /\ (res.status = "success" /\ ~res.sent) =>
              res.type = IF MarkedWrite(arg.params) THEN "mock_write" ELSE "read"

C22_Witness ==
    /\ Done("contract_call")
    /\ ~arg.private_key_set
    /\ MarkedWrite(arg.params)
    /\ res.status = "success"
    /\ res.type = "mock_write"
    /\ ~res.signed

(***************************************************************************)
(* C23: a chat request whose message is missing or empty is answered with  *)
(* HTTP status 400 and detail "Message is required", and no agent or tool  *)
(* is invoked for it.                                                      *)
(***************************************************************************)
C23_EmptyMessageIs400 ==
    (Handled /\ arg = <<>>) =>
        /\ res.status = 400
        /\ res.payload = "Message is required"
        /\ llm_in = <<>>

(***************************************************************************)
(* C24: in every state of a HODLBoxAgent reached by process_message and    *)
(* reset_conversation calls the history is non-empty and begins with the   *)
(* system-prompt message; right after reset_conversation the history is    *)
(* that single message.                                                    *)
(***************************************************************************)
C24_HistoryBeginsWithSystemPrompt ==
    op = "agent" =>
        /\ Len(messages.swap) >= 1
        /\ messages.swap[1] = SystemMessage("swap")
        /\ pc = "reset" => messages.swap = <<SystemMessage("swap")>>

\* a message was handed to the LLM, then the conversation was reset
C24_Witness ==
    /\ op = "agent"
    /\ pc = "reset"
    /\ llm_in /= <<>>
    /\ messages.swap = <<SystemMessage("swap")>>

(***************************************************************************)
(* C29: if the LLM backend raises while process_message handles a message  *)
(* the history is left as it was before the call, so every user message in *)
(* the history is immediately followed by the assistant reply to it.       *)
(***************************************************************************)
C29_UserMessageFollowedByReply ==
    op = "agent" =>
        /\ pc = "raised" => messages.swap[Len(messages.swap)].role /= "user"
        /\ \A i \in 1..Len(messages.swap) :
              messages.swap[i].role = "user" =>
                  /\ i < Len(messages.swap)
                  /\ messages.swap[i + 1].role = "assistant"

(***************************************************************************)
(* C25: when no market-data API key is configured, MarketDataTool uses the *)
(* mock implementation: call serves the request from mock data and makes   *)
(* no HTTP request to an external provider.                                *)
(***************************************************************************)
C25_NoKeyMeansMock ==
    (Done("market_call") /\ ~arg.settings.api_key_set) =>
        /\ use_mock
        /\ res.kind = "data" => res.data.source = "Mock Data"

(***************************************************************************)
(* C26: whenever the analysis yields bull_market or bear_market the        *)
(* volatility is high; the table cells of these two trends with medium or  *)
(* low volatility are never selected.                                      *)
(***************************************************************************)
StrongTrendIsVolatile(state) ==
    state.trend \in {"bull_market", "bear_market"} =>
        /\ state.volatility = "high"
        /\ state.advice = advice_map[state.trend].high

C26_StrongTrendHasHighVolatility ==
    /\ Done("analyze_market_state") => StrongTrendIsVolatile(res)
    /\ (Done("market_call") /\ res.kind = "data" /\ res.has_market_state) =>
          StrongTrendIsVolatile(res.market_state)

C26_Witness ==
    /\ Done("analyze_market_state")
    /\ res.trend = "bear_market"
    /\ res.volatility = "high"

(***************************************************************************)
(* C27: every intent that SwapIntentTool.call returns as valid is accepted *)
(* by SwapAgent.validate_swap_intent: chain, tkBuy, tokenOut and amount    *)
(* are present and non-empty in it.                                        *)
(***************************************************************************)
IntentDict(intent) ==
    << <<"chain", PyStr(intent.chain)>>, <<"tkBuy", PyStr(intent.tkBuy)>>,
       <<"tkSell", PyStr(intent.tkSell)>>, <<"count", PyStr(intent.count)>>,
       <<"tokenIn", PyStr(intent.tokenIn)>>, <<"tokenOut", PyStr(intent.tokenOut)>>,
       <<"amount", PyStr(intent.amount)>>, <<"amountIn", PyStr(intent.amountIn)>> >>

C27_ValidIntentIsAccepted ==
    (Done("call") /\ res.kind = "intent" /\ res.valid) =>
        /\ validate_swap_intent(IntentDict(res))
        /\ res.chain /= <<>>
        /\ res.tkBuy /= <<>>
        /\ res.tokenOut /= <<>>
        /\ res.amount /= <<>>

(***************************************************************************)
(* C30: a snapshot of the mock data source (24h change within [-5, 5], 7d  *)
(* change within [-10, 10]) is never analysed as bull_market or            *)
(* bear_market: its trend is uptrend, downtrend or sideways.               *)
(***************************************************************************)
FromMock(r) == r.kind = "data" /\ r.data.source = "Mock Data" /\ r.has_market_state

C30_MockIsNeverStrongTrend ==
    /\ (Done("market_call") /\ FromMock(res)) =>
          /\ abs(res.data.price_change_percentage_24h) <= 5 * Unit
          /\ abs(res.data.price_change_percentage_7d) <= 10 * Unit
          /\ res.market_state.trend \in {"uptrend", "downtrend", "sideways"}
    /\ (Handled /\ res.status = 200 /\ res.type = "market_data" /\ FromMock(res.payload)) =>
          res.payload.market_state.trend \in {"uptrend", "downtrend", "sideways"}

C30_Witness ==
    /\ Done("market_call")
    /\ FromMock(res)
    /\ res.data.price_change_percentage_24h = 5 * Unit
    /\ res.data.price_change_percentage_7d = 10 * Unit
    /\ res.market_state.trend = "uptrend"

(***************************************************************************)
(* C28: for every profile created through create_user_profile, after any   *)
(* sequence of create_user_profile, update_investment_plan and             *)
(* generate_motivational_response calls, motivational_boosts equals the    *)
(* length of mood_history; a call for an unknown user id or a call whose   *)
(* LLM request fails changes neither.                                      *)
(***************************************************************************)
BoostsAndMoods(u) == <<user_profiles[u].motivational_boosts, user_profiles[u].mood_history>>

C28_BoostsEqualMoodHistory ==
    /\ [](\A u \in UserIds :
            user_profiles[u].motivational_boosts = Len(user_profiles[u].mood_history))
    /\ [][\A u \in UserIds :
            /\ ( /\ ~user_profiles[u].exists
                 /\ \/ UpdateInvestmentPlan(u)
                    \/ \E llm \in {"ok", "raise", "no_content"} :
                          GenerateMotivationalResponse(u, llm) )
               => UNCHANGED user_profiles
            /\ GenerateMotivationalResponse(u, "raise") =>
                  \A v \in UserIds : BoostsAndMoods(v)' = BoostsAndMoods(v)]_vars

C28_Witness ==
    /\ op = "profiles"
    /\ pc = "fallback"
    /\ \E u \in UserIds :
          /\ arg = <<u>>
          /\ user_profiles[u].exists
          /\ user_profiles[u].motivational_boosts = 1
          /\ Len(user_profiles[u].mood_history) = 1
          /\ served = 3

====
